---- MODULE Spec2Model ----
(***************************************************************************)
(* Model of the media-intelligence dashboard in src/streamlit3app.py.      *)
(*                                                                         *)
(* The program is a Streamlit script: every user action (choosing a file,  *)
(* removing it, pressing a button) re-executes the script top to bottom    *)
(* against st.session_state.  One action of the model is one such run.     *)
(*                                                                         *)
(* A Python str is modelled as a sequence of one-character strings, so     *)
(* that strip, lower, replace, split, startswith, the date and number      *)
(* parsers and the f-string formatting are computed, not assumed.  The     *)
(* character U+2022 (the round bullet) is written "BULLET".                *)
(***************************************************************************)
EXTENDS Integers, Sequences, FiniteSets, TLC

VARIABLES
    uploaded_file,  \* the value st.file_uploader returns on the next run
    csv_data,       \* st.session_state.csv_data
    cleaned_df,     \* st.session_state.cleaned_df
    insights,       \* st.session_state.<chart>_insights, one slot per chart
    api_key,        \* os.environ["GEMINI_API_KEY"] ("" when unset)
    json_error_is_request_exception,
                    \* whether the installed requests library raises, from
                    \* response.json(), an exception that is a
                    \* RequestException (requests >= 2.27) or a plain
                    \* json.JSONDecodeError (older releases)
    run             \* what the last run of the script did (observations)

vars == <<uploaded_file, csv_data, cleaned_df, insights, api_key,
          json_error_is_request_exception, run>>

-----------------------------------------------------------------------------
(* Bounds of the model. *)

\* Largest number of data rows of an uploaded file of the cleaning inputs.
MaxRows == 2
\* Number of locations of an uploaded file of the top-locations inputs.
NumLocations == 6
\* Largest engagements value of a row of the top-locations inputs.
MaxEngagement == 1
\* Largest number of lines of a candidate text of the insight inputs.
MaxLines == 4

-----------------------------------------------------------------------------
(* Python str operations, on sequences of characters. *)

Whitespace == {" ", "\t", "\n", "\r"}

UpperCase == <<"A","B","C","D","E","F","G","H","I","J","K","L","M","N","O","P","Q","R","S","T","U",
       "V","W","X","Y","Z">>
LowerCase == <<"a","b","c","d","e","f","g","h","i","j","k","l","m","n","o","p","q","r","s","t","u",
       "v","w","x","y","z">>

\* Characters in code-point order (the part of ASCII the inputs use).
CodePoints == <<"\t","\n","\r">> \o <<" ","(",")","*","-",".","/","0","1","2","3","4","5","6","7","8","9",":">> \o UpperCase \o <<"_">> \o LowerCase \o <<"BULLET">>

Ord(c) == CHOOSE i \in DOMAIN CodePoints : CodePoints[i] = c

\* str.__lt__: lexicographic by code point.
RECURSIVE StrLess(_, _)
StrLess(a, b) ==
    IF b = <<>> THEN FALSE
    ELSE IF a = <<>> THEN TRUE
    ELSE IF a[1] = b[1] THEN StrLess(Tail(a), Tail(b))
    ELSE Ord(a[1]) < Ord(b[1])

\* The lower-case form of each upper-case letter.
LowerOf == [c \in {UpperCase[i] : i \in DOMAIN UpperCase} |->
               LowerCase[CHOOSE i \in DOMAIN UpperCase : UpperCase[i] = c]]

LowerChar(c) == IF c \in DOMAIN LowerOf THEN LowerOf[c] ELSE c

\* str.lower()
Lower(s) == [i \in DOMAIN s |-> LowerChar(s[i])]

RECURSIVE LStrip(_)
LStrip(s) == IF s # <<>> /\ s[1] \in Whitespace THEN LStrip(Tail(s)) ELSE s

RECURSIVE RStrip(_)
RStrip(s) ==
    IF s # <<>> /\ s[Len(s)] \in Whitespace
    THEN RStrip(SubSeq(s, 1, Len(s) - 1))
    ELSE s

\* str.strip()
Strip(s) == RStrip(LStrip(s))

\* str.startswith(prefix)
StartsWith(s, prefix) ==
    \/ prefix = <<>>
    \/ /\ Len(s) >= Len(prefix)
       /\ s[1] = prefix[1]
       /\ SubSeq(s, 1, Len(prefix)) = prefix

\* sub in s
Contains(s, sub) ==
    \E i \in 0..(Len(s) - Len(sub)) :
        \/ sub = <<>>
        \/ s[i + 1] = sub[1] /\ SubSeq(s, i + 1, i + Len(sub)) = sub

\* str.replace(old, new), old non-empty: leftmost, non-overlapping.
RECURSIVE ReplaceAll(_, _, _)
ReplaceAll(s, old, new) ==
    IF Len(s) < Len(old) THEN s
    ELSE IF StartsWith(s, old)
         THEN new \o ReplaceAll(SubSeq(s, Len(old) + 1, Len(s)), old, new)
         ELSE <<s[1]>> \o ReplaceAll(Tail(s), old, new)

Replace(s, old, new) == IF Contains(s, old) THEN ReplaceAll(s, old, new) ELSE s

\* str.split(sep) for a one-character sep: always at least one piece.
RECURSIVE SplitFrom(_, _, _)
SplitFrom(s, sep, cur) ==
    IF s = <<>> THEN <<cur>>
    ELSE IF s[1] = sep THEN <<cur>> \o SplitFrom(Tail(s), sep, <<>>)
    ELSE SplitFrom(Tail(s), sep, Append(cur, s[1]))

Split(s, sep) == SplitFrom(s, sep, <<>>)

DigitChars == <<"0","1","2","3","4","5","6","7","8","9">>

IsDigit(c) == \E i \in DOMAIN DigitChars : DigitChars[i] = c

DigitValue(c) == (CHOOSE i \in DOMAIN DigitChars : DigitChars[i] = c) - 1

AllDigits(s) == s # <<>> /\ \A i \in DOMAIN s : IsDigit(s[i])

\* int(s) for a string of digits.
RECURSIVE DigitsToNat(_)
DigitsToNat(s) ==
    IF s = <<>> THEN 0
    ELSE 10 * DigitsToNat(SubSeq(s, 1, Len(s) - 1)) + DigitValue(s[Len(s)])

\* str(n) for n >= 0.
RECURSIVE NatToStr(_)
NatToStr(n) ==
    IF n < 10 THEN <<DigitChars[n + 1]>>
    ELSE NatToStr(n \div 10) \o <<DigitChars[(n % 10) + 1]>>

\* The zero padding of %Y (width 4) and of %m and %d (width 2).
RECURSIVE ZeroPad(_, _)
ZeroPad(s, width) == IF Len(s) >= width THEN s ELSE ZeroPad(<<"0">> \o s, width)

-----------------------------------------------------------------------------
(* Tables.  A DataFrame is its column labels and its rows; a cell of a     *)
(* freshly read file is its text, and the empty text is a missing value    *)
(* (NaN).  None is the table with isNone set.                              *)

None == [isNone |-> TRUE, columns |-> <<>>, rows |-> <<>>]

DataFrame(columns, rows) == [isNone |-> FALSE, columns |-> columns, rows |-> rows]

\* label in df.columns, and how many columns carry the label
ColumnCount(columns, label) ==
    Cardinality({i \in DOMAIN columns : columns[i] = label})

HasColumn(columns, label) == ColumnCount(columns, label) > 0

ColumnIndex(columns, label) == CHOOSE i \in DOMAIN columns : columns[i] = label

\* Line 63: the new label of one column.
NormalizeColumn(col) ==
    Replace(Replace(Replace(Lower(Strip(col)), <<" ">>, <<"_">>),
                    <<"p","l","a","t","e","f","o","r","m">>, <<"p","l","a","t","f","o","r","m">>),
            <<"m","e","d","i","a","_","t","y","p","e">>, <<"m","e","d","i","a","T","y","p","e">>)

\* Line 63: df.columns = [ ... for col in df.columns]
NormalizeColumns(columns) == [i \in DOMAIN columns |-> NormalizeColumn(columns[i])]

\* Days of a month of the proleptic Gregorian calendar.
DaysInMonth(y, m) ==
    IF m \in {4, 6, 9, 11} THEN 30
    ELSE IF m # 2 THEN 31
    ELSE IF (y % 4 = 0 /\ y % 100 # 0) \/ y % 400 = 0 THEN 29 ELSE 28

NaT == [valid |-> FALSE, y |-> 0, m |-> 0, d |-> 0]

\* Line 67: pd.to_datetime(errors='coerce') of one cell.  The inputs of the
\* model are either ISO dates (YYYY-MM-DD), text that no format of the
\* parser reads, or missing; a cell that does not parse becomes NaT.
ToDatetime(s) ==
    IF /\ Len(s) = 10
       /\ AllDigits(SubSeq(s, 1, 4)) /\ s[5] = "-"
       /\ AllDigits(SubSeq(s, 6, 7)) /\ s[8] = "-"
       /\ AllDigits(SubSeq(s, 9, 10))
    THEN LET y == DigitsToNat(SubSeq(s, 1, 4))
             m == DigitsToNat(SubSeq(s, 6, 7))
             d == DigitsToNat(SubSeq(s, 9, 10))
         IN  IF y >= 1 /\ m \in 1..12 /\ d >= 1 /\ d <= DaysInMonth(y, m)
             THEN [valid |-> TRUE, y |-> y, m |-> m, d |-> d]
             ELSE NaT
    ELSE NaT

\* Line 69: .dt.strftime('%Y-%m-%d') of one timestamp; NaT formats to a
\* missing value.
Strftime(t) ==
    IF t.valid
    THEN ZeroPad(NatToStr(t.y), 4) \o <<"-">> \o ZeroPad(NatToStr(t.m), 2)
         \o <<"-">> \o ZeroPad(NatToStr(t.d), 2)
    ELSE <<>>

\* The number grammar of the engagements inputs: an optional minus sign,
\* digits, and optionally a point and more digits.
NumberParts(s) ==
    LET neg  == s # <<>> /\ s[1] = "-"
        body == IF neg THEN Tail(s) ELSE s
        dots == {i \in DOMAIN body : body[i] = "."}
        dot  == IF dots = {} THEN Len(body) + 1 ELSE CHOOSE i \in dots : TRUE
        whole == SubSeq(body, 1, dot - 1)
        frac  == SubSeq(body, dot + 1, Len(body))
    IN  [ok |-> /\ Cardinality(dots) <= 1
                /\ AllDigits(whole)
                /\ (dots = {} \/ AllDigits(frac)),
         neg |-> neg, whole |-> whole]

\* Line 73 with fillna(-1) for fillna(0).
ToIntFillMinusOne(s) ==
    LET p == NumberParts(s)
    IN  IF ~p.ok THEN 0 - 1
        ELSE IF p.neg THEN 0 - DigitsToNat(p.whole) ELSE DigitsToNat(p.whole)

\* Line 73: pd.to_numeric(errors='coerce').fillna(0).astype(int) of one
\* cell: text that is no number, and a missing cell, become 0; a number is
\* truncated toward zero and keeps its sign.
ToInt(s) ==
    LET p == NumberParts(s)
    IN  IF ~p.ok THEN 0
        ELSE IF p.neg THEN 0 - DigitsToNat(p.whole) ELSE DigitsToNat(p.whole)

\* Line 49: pd.read_csv.  A file is what the parser makes of it: whether it
\* parses as a table at all, and then its header and its rows of cells.
ReadCsv(file) == DataFrame(file.columns, file.rows)

\* Lines 66-69 without line 68.
DropNaDateOmitted(rows, k) == rows

\* Line 68: df.dropna(subset=['date']) after the coercion of line 67.
DropNaDate(rows, k) == SelectSeq(rows, LAMBDA r : ToDatetime(r[k]).valid)

\* Lines 67 and 69 on the rows line 68 kept.
FormatDateColumn(rows, k) ==
    [i \in DOMAIN rows |-> [rows[i] EXCEPT ![k] = Strftime(ToDatetime(rows[i][k]))]]

\* Lines 66-69.
CleanDates(df) ==
    IF HasColumn(df.columns, <<"d","a","t","e">>)
    THEN LET k == ColumnIndex(df.columns, <<"d","a","t","e">>)
         IN  DataFrame(df.columns, FormatDateColumn(DropNaDate(df.rows, k), k))
    ELSE df

\* Lines 72-75.
CleanEngagements(df) ==
    IF HasColumn(df.columns, <<"e","n","g","a","g","e","m","e","n","t","s">>)
    THEN LET k == ColumnIndex(df.columns, <<"e","n","g","a","g","e","m","e","n","t","s">>)
         IN  DataFrame(df.columns,
                       [i \in DOMAIN df.rows |->
                           [df.rows[i] EXCEPT ![k] = ToInt(df.rows[i][k])]])
    ELSE DataFrame(Append(df.columns, <<"e","n","g","a","g","e","m","e","n","t","s">>),
                   [i \in DOMAIN df.rows |-> Append(df.rows[i], 0)])

\* Line 63.
NormalizedFrame(df) == DataFrame(NormalizeColumns(df.columns), df.rows)

\* What makes lines 66-75 raise on a frame whose labels are normalized:
\* two columns labelled 'date', or two labelled 'engagements', make
\* df[label] a frame, for which pd.to_datetime (line 67) and pd.to_numeric
\* (line 73) raise.
CleaningRaises(df) ==
    \/ ColumnCount(df.columns, <<"d","a","t","e">>) > 1
    \/ ColumnCount(df.columns, <<"e","n","g","a","g","e","m","e","n","t","s">>) > 1

\* Lines 65-75 on a frame whose labels are normalized.
CleanFrame(df) == CleanEngagements(CleanDates(df))

\* Lines 61-77: the cleaned table of a file that parses.
CleanTable(file) == CleanFrame(NormalizedFrame(ReadCsv(file)))

\* Lines 46-83 without the assignments of lines 82 and 83.
ProcessUploadKeepsTables(file, old_csv, old_cleaned) ==
    IF file.isNone
    THEN [status |-> "skipped", csv_data |-> old_csv, cleaned_df |-> old_cleaned]
    ELSE IF ~file.parses \/ CleaningRaises(NormalizedFrame(ReadCsv(file)))
    THEN [status |-> "failed", csv_data |-> old_csv, cleaned_df |-> old_cleaned]
    ELSE [status |-> "ok", csv_data |-> ReadCsv(file), cleaned_df |-> CleanTable(file)]

\* Lines 46-83: the session's csv_data and cleaned_df after the cleaning
\* section, given what they were.  Without an uploaded file the section is
\* skipped; a file pd.read_csv rejects (line 49) and an exception in the
\* cleaning (lines 63-75) clear both.
ProcessUpload(file, old_csv, old_cleaned) ==
    IF file.isNone
    THEN [status |-> "skipped", csv_data |-> old_csv, cleaned_df |-> old_cleaned]
    ELSE IF ~file.parses
    THEN [status |-> "failed", csv_data |-> None, cleaned_df |-> None]
    ELSE LET df == NormalizedFrame(ReadCsv(file))
         IN  IF CleaningRaises(df)
             THEN [status |-> "failed", csv_data |-> None, cleaned_df |-> None]
             ELSE [status |-> "ok", csv_data |-> ReadCsv(file),
                   cleaned_df |-> CleanFrame(df)]

-----------------------------------------------------------------------------
(* The five aggregate tables of the visualization section. *)

\* One column of a table, as a sequence.
Column(df, label) ==
    LET k == ColumnIndex(df.columns, label)
    IN  [i \in DOMAIN df.rows |-> df.rows[i][k]]

\* The distinct values of a sequence, missing values (NaN) left out, in the
\* order of their first appearance.
RECURSIVE Unique(_)
Unique(s) ==
    IF s = <<>> THEN <<>>
    ELSE LET init == Unique(SubSeq(s, 1, Len(s) - 1))
             x == s[Len(s)]
         IN  IF x = <<>> \/ \E i \in DOMAIN init : init[i] = x
             THEN init
             ELSE Append(init, x)

RECURSIVE SumSeq(_)
SumSeq(s) == IF s = <<>> THEN 0 ELSE s[1] + SumSeq(Tail(s))

\* Stable insertion of a (key, value) record into a sequence sorted by
\* value, descending and ascending.
RECURSIVE InsertDescending(_, _)
InsertDescending(sorted, x) ==
    IF sorted = <<>> THEN <<x>>
    ELSE IF sorted[1].value >= x.value
         THEN <<sorted[1]>> \o InsertDescending(Tail(sorted), x)
         ELSE <<x>> \o sorted

RECURSIVE InsertAscending(_, _)
InsertAscending(sorted, x) ==
    IF sorted = <<>> THEN <<x>>
    ELSE IF sorted[1].value <= x.value
         THEN <<sorted[1]>> \o InsertAscending(Tail(sorted), x)
         ELSE <<x>> \o sorted

RECURSIVE SortDescending(_)
SortDescending(s) ==
    IF s = <<>> THEN <<>>
    ELSE InsertDescending(SortDescending(SubSeq(s, 1, Len(s) - 1)), s[Len(s)])

RECURSIVE SortAscending(_)
SortAscending(s) ==
    IF s = <<>> THEN <<>>
    ELSE InsertAscending(SortAscending(SubSeq(s, 1, Len(s) - 1)), s[Len(s)])

\* A sequence of strings sorted ascending (group keys are sorted).
RECURSIVE InsertKey(_, _)
InsertKey(sorted, k) ==
    IF sorted = <<>> THEN <<k>>
    ELSE IF StrLess(k, sorted[1]) THEN <<k>> \o sorted
    ELSE <<sorted[1]>> \o InsertKey(Tail(sorted), k)

RECURSIVE SortKeys(_)
SortKeys(s) ==
    IF s = <<>> THEN <<>> ELSE InsertKey(SortKeys(Tail(s)), s[1])

\* Lines 148 and 234: df[label].value_counts().reset_index(): one record
\* per distinct value, most frequent first.  (The order among equally
\* frequent values is taken to be that of first appearance.)
ValueCounts(df, label) ==
    LET col  == Column(df, label)
        keys == Unique(col)
    IN  SortDescending(
            [i \in DOMAIN keys |->
                [key |-> keys[i],
                 value |-> Cardinality({j \in DOMAIN col : col[j] = keys[i]})]])

\* Lines 184, 208 and 270: df.groupby(label)['engagements'].sum()
\* .reset_index(): one record per distinct key, keys ascending, rows with a
\* missing key left out.
GroupBySum(df, label) ==
    LET col  == Column(df, label)
        eng  == Column(df, <<"e","n","g","a","g","e","m","e","n","t","s">>)
        keys == SortKeys(Unique(col))
    IN  [i \in DOMAIN keys |->
            [key |-> keys[i],
             value |-> SumSeq([j \in DOMAIN col |->
                                  IF col[j] = keys[i] THEN eng[j] ELSE 0])]]

\* Line 271 with keep='last': among equal values the later rows first.
NLargestKeepLast(n, table) ==
    LET sorted == SortAscending(table)
    IN  [i \in 1..(IF Len(sorted) < n THEN Len(sorted) ELSE n) |->
            sorted[Len(sorted) + 1 - i]]

\* Line 271: DataFrame.nlargest(n, 'engagements') with keep='first': the n
\* rows of the largest value, largest first, equal values in table order.
NLargest(n, table) ==
    LET sorted == SortDescending(table)
    IN  SubSeq(sorted, 1, IF Len(sorted) < n THEN Len(sorted) ELSE n)

sentiment_data(df) == ValueCounts(df, <<"s","e","n","t","i","m","e","n","t">>)

engagement_trend_data(df) == GroupBySum(df, <<"d","a","t","e">>)

\* Lines 208-209: summed per platform, then sorted ascending by total.
platform_engagement_data(df) == SortAscending(GroupBySum(df, <<"p","l","a","t","f","o","r","m">>))

media_type_data(df) == ValueCounts(df, <<"m","e","d","i","a","T","y","p","e">>)

location_engagement_data(df) == GroupBySum(df, <<"l","o","c","a","t","i","o","n">>)

\* Line 271.
TopN == 5

top_5_locations(df) == NLargest(TopN, location_engagement_data(df))

\* The charts in the order the script draws them, each with the columns
\* its aggregate reads and the data its button sends.
Charts == <<"sentiment", "engagement", "platform", "media_type", "location">>

ChartSet == {Charts[i] : i \in DOMAIN Charts}

ChartColumns(chart) ==
    CASE chart = "sentiment"  -> {<<"s","e","n","t","i","m","e","n","t">>}
      [] chart = "engagement" -> {<<"d","a","t","e">>, <<"e","n","g","a","g","e","m","e","n","t","s">>}
      [] chart = "platform"   -> {<<"p","l","a","t","f","o","r","m">>, <<"e","n","g","a","g","e","m","e","n","t","s">>}
      [] chart = "media_type" -> {<<"m","e","d","i","a","T","y","p","e">>}
      [] chart = "location"   -> {<<"l","o","c","a","t","i","o","n">>, <<"e","n","g","a","g","e","m","e","n","t","s">>}

ChartData(chart, df) ==
    CASE chart = "sentiment"  -> sentiment_data(df)
      [] chart = "engagement" -> engagement_trend_data(df)
      [] chart = "platform"   -> platform_engagement_data(df)
      [] chart = "media_type" -> media_type_data(df)
      [] chart = "location"   -> top_5_locations(df)

\* Line 142: the guard of the visualization section.
Visualizes(df) == ~df.isNone /\ df.rows # <<>>

\* A chart is drawn, and its button offered, when the guard of line 142
\* holds and no aggregate up to and including its own raises KeyError for
\* a column the table lacks (the exception ends the run of the script).
RenderedCharts(df) ==
    IF ~Visualizes(df) THEN {}
    ELSE {Charts[i] : i \in {i \in DOMAIN Charts :
             \A j \in 1..i : \A c \in ChartColumns(Charts[j]) : HasColumn(df.columns, c)}}

-----------------------------------------------------------------------------
(* The insight requester, lines 86-138. *)

\* What requests.post comes to: the connection fails, or a response with a
\* status and a body.  The body is what response.json() makes of it:
\* whether it parses, whether the parsed value is an object, and its
\* 'candidates' (missing, null and [] all read as <<>>); a candidate has a
\* 'content' object or not, with its 'parts'; a part has a 'text' key or
\* not, whose value is a string or not.
NoResponse == [kind |-> "none", status |-> 0, parses |-> FALSE, isObject |-> FALSE,
               candidates |-> <<>>]

ConnectionError == [kind |-> "connection_error", status |-> 0, parses |-> FALSE,
                    isObject |-> FALSE, candidates |-> <<>>]

HttpResponse(status, parses, isObject, candidates) ==
    [kind |-> "http", status |-> status, parses |-> parses, isObject |-> isObject,
     candidates |-> candidates]

Part(hasText, isString, text) == [hasText |-> hasText, isString |-> isString, text |-> text]

Candidate(hasContent, parts) == [hasContent |-> hasContent, parts |-> parts]

\* requests.Response.ok: raise_for_status() raises for 400 <= status < 600.
ResponseOk(response) == ~(response.status >= 400 /\ response.status < 600)

\* The returned explanatory strings.
MissingKeyMessage ==
    <<"F","a","i","l","e","d"," ","t","o"," ","g","e","n","e","r","a","t","e"," ","i","n",
       "s","i","g","h","t","s",":"," ","G","e","m","i","n","i"," ","A","P","I"," ","K","e",
       "y"," ","i","s"," ","m","i","s","s","i","n","g","."," ","C","h","e","c","k"," ","y",
       "o","u","r"," ","C","a","n","v","a","s"," ","e","n","v","i","r","o","n","m","e","n",
       "t"," ","s","e","t","t","i","n","g","s",".">>

AuthorizationMessages ==
    << <<"F","a","i","l","e","d"," ","t","o"," ","g","e","n","e","r","a","t","e"," ","i","n",
       "s","i","g","h","t","s",":"," ","A","u","t","h","o","r","i","z","a","t","i","o","n",
       " ","e","r","r","o","r"," ","(","S","t","a","t","u","s"," ","4","0","1",")",".">>,
       <<"P","l","e","a","s","e"," ","e","n","s","u","r","e"," ","y","o","u","r"," ","A","P",
       "I"," ","K","e","y"," ","f","o","r"," ","t","h","e"," ","G","e","m","i","n","i"," ",
       "A","P","I"," ","i","s"," ","c","o","r","r","e","c","t","l","y"," ","c","o","n","f",
       "i","g","u","r","e","d"," ","i","n"," ","y","o","u","r"," ","C","a","n","v","a","s",
       " ","e","n","v","i","r","o","n","m","e","n","t"," ","s","e","t","t","i","n","g","s",
       ".">> >>

ApiErrorMessage(status) ==
    <<"F","a","i","l","e","d"," ","t","o"," ","g","e","n","e","r","a","t","e"," ","i","n",
       "s","i","g","h","t","s",":"," ","A","P","I"," ","r","e","t","u","r","n","e","d"," ",
       "a","n"," ","e","r","r","o","r"," ","(">> \o NatToStr(status) \o <<")",".">>

StructureMessage ==
    <<"F","a","i","l","e","d"," ","t","o"," ","g","e","n","e","r","a","t","e"," ","i","n",
       "s","i","g","h","t","s",":"," ","U","n","e","x","p","e","c","t","e","d"," ","A","P",
       "I"," ","r","e","s","p","o","n","s","e"," ","s","t","r","u","c","t","u","r","e",".">>

NetworkMessage ==
    <<"E","r","r","o","r"," ","g","e","n","e","r","a","t","i","n","g"," ","i","n","s","i",
       "g","h","t","s",":"," ","N","e","t","w","o","r","k"," ","o","r"," ","A","P","I"," ",
       "r","e","q","u","e","s","t"," ","f","a","i","l","e","d","."," ","P","l","e","a","s",
       "e"," ","c","h","e","c","k"," ","y","o","u","r"," ","i","n","t","e","r","n","e","t",
       " ","c","o","n","n","e","c","t","i","o","n"," ","o","r"," ","A","P","I"," ","e","n",
       "d","p","o","i","n","t",".">>

JsonMessage ==
    <<"E","r","r","o","r"," ","g","e","n","e","r","a","t","i","n","g"," ","i","n","s","i",
       "g","h","t","s",":"," ","C","o","u","l","d"," ","n","o","t"," ","p","a","r","s","e",
       " ","A","P","I"," ","r","e","s","p","o","n","s","e",".">>

UnexpectedMessage ==
    <<"A","n"," ","u","n","e","x","p","e","c","t","e","d"," ","e","r","r","o","r"," ","o",
       "c","c","u","r","r","e","d"," ","w","h","i","l","e"," ","g","e","n","e","r","a","t",
       "i","n","g"," ","i","n","s","i","g","h","t","s",".">>

BulletMarkers == {<<"-">>, <<"*">>, <<"BULLET">>}

\* line.strip().startswith(('-', '*', BULLET))
IsBulletLine(line) == \E m \in BulletMarkers : StartsWith(Strip(line), m)

StripAll(lines) == [i \in DOMAIN lines |-> Strip(lines[i])]

\* Line 126: insights[:3]
MaxInsights == 3

Truncate(s, n) == SubSeq(s, 1, IF Len(s) < n THEN Len(s) ELSE n)

\* Lines 123-126: the insights of a candidate text.
ParseInsights(text) ==
    LET lines    == Split(text, "\n")
        bulleted == StripAll(SelectSeq(lines, IsBulletLine))
        nonempty == StripAll(SelectSeq(lines, LAMBDA l : Strip(l) # <<>>))
    IN  Truncate(IF bulleted # <<>> THEN bulleted ELSE nonempty, MaxInsights)

\* Lines 118-120: the guard on the shape of the parsed body.
HasExpectedStructure(response) ==
    /\ response.candidates # <<>>
    /\ response.candidates[1].hasContent
    /\ response.candidates[1].parts # <<>>

\* Lines 116-128, for a response with a success status.
HandleSuccess(response, json_is_request_exception) ==
    IF ~response.parses
    THEN \* response.json() raises: caught at line 130 when the exception is
         \* a RequestException, at line 133 otherwise
         IF json_is_request_exception THEN <<NetworkMessage>> ELSE <<JsonMessage>>
    ELSE IF ~response.isObject
    THEN <<UnexpectedMessage>>      \* result.get: AttributeError, line 136
    ELSE IF HasExpectedStructure(response)
    THEN LET part == response.candidates[1].parts[1]
         IN  IF ~part.hasText \/ ~part.isString
             THEN <<UnexpectedMessage>>  \* KeyError, AttributeError: line 136
             ELSE ParseInsights(part.text)
    ELSE <<StructureMessage>>

\* Lines 106-114, for a response with an error status.
HandleErrorStatus(response) ==
    IF response.status = 401
    THEN AuthorizationMessages
    ELSE <<ApiErrorMessage(response.status)>>

\* Lines 86-138 with the check of the key (lines 91-93) moved after the
\* request.
generate_insights_key_checked_late(key, response, json_is_request_exception) ==
    [posted |-> TRUE,
     insights |->
         IF response.kind = "connection_error" THEN <<NetworkMessage>>
         ELSE IF key = <<>> THEN <<MissingKeyMessage>>
         ELSE IF ~ResponseOk(response) THEN HandleErrorStatus(response)
         ELSE HandleSuccess(response, json_is_request_exception)]

\* Lines 86-138: the returned list, and whether requests.post was called.
generate_insights_from_gemini(key, response, json_is_request_exception) ==
    IF key = <<>>
    THEN [insights |-> <<MissingKeyMessage>>, posted |-> FALSE]
    ELSE [posted |-> TRUE,
          insights |->
              IF response.kind = "connection_error" THEN <<NetworkMessage>>
              ELSE IF ~ResponseOk(response) THEN HandleErrorStatus(response)
              ELSE HandleSuccess(response, json_is_request_exception)]

-----------------------------------------------------------------------------
(* One run of the script. *)

NoFile == [isNone |-> TRUE, parses |-> FALSE, columns |-> <<>>, rows |-> <<>>]

CsvFile(columns, rows) == [isNone |-> FALSE, parses |-> TRUE, columns |-> columns, rows |-> rows]

\* A file pd.read_csv rejects (no columns to parse, a tokenizing error).
MalformedFile == [isNone |-> FALSE, parses |-> FALSE, columns |-> <<>>, rows |-> <<>>]

NoInsights == [c \in ChartSet |-> <<>>]

\* What a run of the script did: the user's action, the button pressed,
\* how the cleaning section ended ("skipped", "ok", "failed": line 81
\* reports the error), the charts drawn with the table each shows, whether
\* the requester was called, whether it posted, the response it got and
\* the list it returned.
FirstRun ==
    [action |-> "start", clicked |-> "none", cleaning |-> "skipped", rendered |-> {},
     charts |-> [c \in {} |-> <<>>],
     requested |-> FALSE, posted |-> FALSE, response |-> NoResponse, result |-> <<>>]

\* Lines 30-43: the session state of a new session.
NewSession(key, json_is_request_exception) ==
    [uploaded_file |-> NoFile, csv_data |-> None, cleaned_df |-> None,
     insights |-> NoInsights, api_key |-> key,
     json_error_is_request_exception |-> json_is_request_exception, run |-> FirstRun]

\* Line 287 assigning to sentiment_insights, the slot of another handler.
StoreInsightsWrongSlot(slots, clicked, result) ==
    IF clicked = "location"
    THEN [slots EXCEPT !["sentiment"] = result]
    ELSE [slots EXCEPT ![clicked] = result]

\* Lines 174, 199, 225, 261 and 287: each handler assigns the returned list
\* to the slot of its own chart.
StoreInsights(slots, clicked, result) == [slots EXCEPT ![clicked] = result]

\* Lines 27-292: the session after one run of the script that starts in
\* session s, with `file` in the uploader, the button of chart `clicked`
\* pressed ("none": no button) and `response` what the endpoint answers if
\* it is asked.  st.file_uploader hands every run the file from its start,
\* so line 49 reads the whole file again on each run.
ScriptRun(s, action, file, clicked, response) ==
    LET up       == ProcessUpload(file, s.csv_data, s.cleaned_df)
        rendered == RenderedCharts(up.cleaned_df)
        reached  == clicked \in rendered
        g        == generate_insights_from_gemini(s.api_key, response,
                                                  s.json_error_is_request_exception)
    IN  [uploaded_file |-> file,
         csv_data      |-> up.csv_data,
         cleaned_df    |-> up.cleaned_df,
         insights      |-> IF reached
                           THEN StoreInsights(s.insights, clicked, g.insights)
                           ELSE s.insights,
         api_key       |-> s.api_key,
         json_error_is_request_exception |-> s.json_error_is_request_exception,
         run           |-> [action    |-> action,
                            clicked   |-> clicked,
                            cleaning  |-> up.status,
                            rendered  |-> rendered,
                            charts    |-> [c \in rendered |-> ChartData(c, up.cleaned_df)],
                            requested |-> reached,
                            posted    |-> reached /\ g.posted,
                            response  |-> IF reached /\ g.posted THEN response
                                          ELSE NoResponse,
                            result    |-> IF reached THEN g.insights ELSE <<>>]]

Session ==
    [uploaded_file |-> uploaded_file, csv_data |-> csv_data, cleaned_df |-> cleaned_df,
     insights |-> insights, api_key |-> api_key,
     json_error_is_request_exception |-> json_error_is_request_exception, run |-> run]

IsSession(s) ==
    /\ uploaded_file = s.uploaded_file
    /\ csv_data = s.csv_data
    /\ cleaned_df = s.cleaned_df
    /\ insights = s.insights
    /\ api_key = s.api_key
    /\ json_error_is_request_exception = s.json_error_is_request_exception
    /\ run = s.run

Becomes(s) ==
    /\ uploaded_file' = s.uploaded_file
    /\ csv_data' = s.csv_data
    /\ cleaned_df' = s.cleaned_df
    /\ insights' = s.insights
    /\ api_key' = s.api_key
    /\ json_error_is_request_exception' = s.json_error_is_request_exception
    /\ run' = s.run

\* The user puts a file into the uploader (lines 27, 46-83, 142-292).
UploadFile(files) ==
    \E f \in files :
        \E s \in {ScriptRun(Session, "upload", f, "none", NoResponse)} : Becomes(s)

\* The user removes the file from the uploader: the cleaning section is
\* skipped and the session keeps its tables.
RemoveFile ==
    /\ ~uploaded_file.isNone
    /\ \E s \in {ScriptRun(Session, "remove", NoFile, "none", NoResponse)} : Becomes(s)

\* The user presses the insight button of a chart the last run drew.
ClickButton(responses) ==
    \E c \in run.rendered : \E r \in responses :
        \E s \in {ScriptRun(Session, "click", uploaded_file, c, r)} : Becomes(s)

-----------------------------------------------------------------------------
(* The inputs the specifications draw from. *)

RECURSIVE SeqsOfLength(_, _)
SeqsOfLength(S, n) ==
    IF n = 0 THEN {<<>>}
    ELSE {Append(s, x) : s \in SeqsOfLength(S, n - 1), x \in S}

SeqsUpTo(S, n) == UNION {SeqsOfLength(S, k) : k \in 0..n}

\* The two records of the documented example, as a row's other cells.
TwitterRow(date, engagements) ==
    <<date, <<"T","w","i","t","t","e","r">>, <<"P","o","s","i","t","i","v","e">>, <<"N","Y">>, engagements, <<"V","i","d","e","o">>>>

FacebookRow(date, engagements) ==
    <<date, <<"F","B">>, <<"N","e","g","a","t","i","v","e">>, <<"L","A">>, engagements, <<"I","m","a","g","e">>>>

\* Date cells: a date; a date of a day that does not exist, text, missing.
GoodDate == <<"2","0","2","4","-","0","1","-","0","1">>

BadDates == {<<"2","0","2","4","-","0","2","-","3","0">>, <<"n","o","t","-","a","-","d","a","t","e">>, <<>>}

\* Rows: under the good date, engagements that are a count, text, missing,
\* a negative number and fractional numbers; under each bad date, a count
\* and a negative number.
InputRows ==
    {TwitterRow(GoodDate, e) : e \in {<<"1","0">>, <<"a","b","c">>, <<>>}}
    \cup {FacebookRow(GoodDate, e) : e \in {<<"-","5">>, <<"2",".","7">>, <<"-","0",".","5">>}}
    \cup {TwitterRow(d, <<"1","0">>) : d \in BadDates}
    \cup {FacebookRow(d, <<"-","5">>) : d \in BadDates}

\* Headers: the documented one (line 24); one without an engagements
\* column; one without a date column; one in other case and spacing, whose
\* media column is already named mediaType; one with a second column that
\* normalizes to 'date'.  `cells` says which cell of an input row each
\* column holds.
DocumentedHeader ==
    [columns |-> <<<<"D","a","t","e">>, <<"p","l","a","t","e","f","o","r","m">>, <<"S","e","n","t","i","m","e","n","t">>, <<"l","o","c","a","t","i","o","n">>,
                   <<"e","n","g","a","g","e","m","e","n","t","s">>, <<"M","e","d","i","a"," ","T","y","p","e">>>>,
     cells |-> <<1, 2, 3, 4, 5, 6>>]

Headers ==
    {DocumentedHeader,
     [columns |-> <<<<"D","a","t","e">>, <<"p","l","a","t","e","f","o","r","m">>, <<"S","e","n","t","i","m","e","n","t">>, <<"l","o","c","a","t","i","o","n">>, <<"M","e","d","i","a"," ","T","y","p","e">>>>,
      cells |-> <<1, 2, 3, 4, 6>>],
     [columns |-> <<<<"D","a","y">>, <<"p","l","a","t","e","f","o","r","m">>, <<"S","e","n","t","i","m","e","n","t">>, <<"l","o","c","a","t","i","o","n">>,
                    <<"e","n","g","a","g","e","m","e","n","t","s">>, <<"M","e","d","i","a"," ","T","y","p","e">>>>,
      cells |-> <<1, 2, 3, 4, 5, 6>>],
     [columns |-> <<<<" ","D","A","T","E">>, <<"P","l","a","t","f","o","r","m">>, <<"s","e","n","t","i","m","e","n","t"," ">>, <<"L","o","c","a","t","i","o","n">>,
                    <<"E","n","g","a","g","e","m","e","n","t","s">>, <<"m","e","d","i","a","T","y","p","e">>>>,
      cells |-> <<1, 2, 3, 4, 5, 6>>],
     [columns |-> <<<<"D","a","t","e">>, <<"p","l","a","t","e","f","o","r","m">>, <<"S","e","n","t","i","m","e","n","t">>, <<"l","o","c","a","t","i","o","n">>,
                    <<"e","n","g","a","g","e","m","e","n","t","s">>, <<"M","e","d","i","a"," ","T","y","p","e">>, <<"d","a","t","e"," ">>>>,
      cells |-> <<1, 2, 3, 4, 5, 6, 1>>]}

FileOf(header, rows) ==
    CsvFile(header.columns,
            [i \in DOMAIN rows |-> [j \in DOMAIN header.cells |-> rows[i][header.cells[j]]]])

CleaningFiles ==
    {MalformedFile}
    \cup {FileOf(h, rows) : h \in Headers, rows \in SeqsUpTo(InputRows, MaxRows)}

\* Files for the top locations: one row per location L1, L2, ..., written
\* last location first, and one more row for L1, each with an engagements
\* count of its own.
LocationName(i) == <<"L">> \o NatToStr(i)

LocationRow(i, e) ==
    <<<<"2","0","2","4","-","0","1","-","0","1">>, <<"T","w","i","t","t","e","r">>, <<"P","o","s","i","t","i","v","e">>, LocationName(i), NatToStr(e), <<"V","i","d","e","o">>>>

LocationFiles ==
    {FileOf(DocumentedHeader,
            [i \in 1..(NumLocations + 1) |->
                IF i <= NumLocations
                THEN LocationRow(NumLocations + 1 - i, e[NumLocations + 1 - i])
                ELSE LocationRow(1, extra)]) :
        e \in [1..NumLocations -> 0..MaxEngagement], extra \in 0..MaxEngagement}

\* Example 1 of the documented behaviour.
SampleFile ==
    FileOf(DocumentedHeader,
           <<TwitterRow(<<"2","0","2","4","-","0","1","-","0","1">>, <<"1","0">>), FacebookRow(<<"n","o","t","-","a","-","d","a","t","e">>, <<"5">>)>>)

\* GEMINI_API_KEY: unset or empty, and set.
Keys == {<<>>, <<"k","e","y">>}

\* Lines of a candidate text: bulleted with each marker, plain and blank,
\* some with spaces around them.
InputLines == {<<"-"," ","a">>, <<"*","b">>, <<" ","BULLET"," ","c"," ">>, <<"d"," ">>, <<" "," ">>}

\* "\n".join(lines)
RECURSIVE Join(_)
Join(lines) ==
    IF lines = <<>> THEN <<>>
    ELSE IF Len(lines) = 1 THEN lines[1]
    ELSE lines[1] \o <<"\n">> \o Join(Tail(lines))

InputTexts == {Join(lines) : lines \in SeqsUpTo(InputLines, MaxLines)}

TextResponse(text) ==
    HttpResponse(200, TRUE, TRUE, <<Candidate(TRUE, <<Part(TRUE, TRUE, text)>>)>>)

ErrorStatuses == {400, 401, 403, 404, 429, 500, 503}

\* Bodies of a success response that are not the expected one: not JSON;
\* a JSON array; no candidates; a candidate without content; content
\* without parts; a part without text; a text that is no string.
OddResponses ==
    {HttpResponse(200, FALSE, FALSE, <<>>),
     HttpResponse(200, TRUE, FALSE, <<>>),
     HttpResponse(200, TRUE, TRUE, <<>>),
     HttpResponse(200, TRUE, TRUE, <<Candidate(FALSE, <<>>)>>),
     HttpResponse(200, TRUE, TRUE, <<Candidate(TRUE, <<>>)>>),
     HttpResponse(200, TRUE, TRUE, <<Candidate(TRUE, <<Part(FALSE, FALSE, <<>>)>>)>>),
     HttpResponse(200, TRUE, TRUE, <<Candidate(TRUE, <<Part(TRUE, FALSE, <<>>)>>)>>)}

InsightResponses ==
    {ConnectionError}
    \cup {HttpResponse(st, TRUE, TRUE, <<>>) : st \in ErrorStatuses}
    \cup OddResponses
    \cup {TextResponse(t) : t \in InputTexts}

\* The inputs of the session specification.
SessionFiles ==
    {MalformedFile, SampleFile,
     FileOf(DocumentedHeader, <<FacebookRow(<<"n","o","t","-","a","-","d","a","t","e">>, <<"5">>)>>),
     FileOf([columns |-> <<<<"D","a","y">>, <<"p","l","a","t","e","f","o","r","m">>, <<"S","e","n","t","i","m","e","n","t">>, <<"l","o","c","a","t","i","o","n">>,
                           <<"e","n","g","a","g","e","m","e","n","t","s">>, <<"M","e","d","i","a"," ","T","y","p","e">>>>,
             cells |-> <<1, 2, 3, 4, 5, 6>>],
            <<TwitterRow(<<"2","0","2","4","-","0","1","-","0","1">>, <<"1","0">>)>>)}

SessionResponses == {ConnectionError, TextResponse(<<"-"," ","a","\n","-"," ","b">>)}

-----------------------------------------------------------------------------
(* Specifications. *)

\* A new session, under either library and with or without the key.
Init == \E key \in Keys, b \in BOOLEAN : IsSession(NewSession(key, b))

\* The session: any sequence of uploads, removals and button presses.
Next ==
    \/ UploadFile(SessionFiles)
    \/ RemoveFile
    \/ ClickButton(SessionResponses)

Spec == Init /\ [][Next]_vars

\* Cleaning, as a function of the file: the first upload of a new session.
InitClean == IsSession(NewSession(<<>>, TRUE))

NextClean == uploaded_file.isNone /\ UploadFile(CleaningFiles \cup LocationFiles)

SpecClean == InitClean /\ [][NextClean]_vars

\* The insight requester, as a function of the key, the library and the
\* response: the first request of a session that has cleaned the sample.
InitGemini ==
    \E key \in Keys, b \in BOOLEAN :
        IsSession(ScriptRun(NewSession(key, b), "upload", SampleFile, "none", NoResponse))

NextGemini == ~run.requested /\ ClickButton(InsightResponses)

SpecGemini == InitGemini /\ [][NextGemini]_vars

-----------------------------------------------------------------------------
(* What the properties read from a state.  The raw upload is csv_data; the *)
(* cleaning keeps the position of every column, so a column of the cleaned *)
(* table is found in the raw one at the same index.  Which input cells are *)
(* dates, and which are numbers, is stated here from the inputs, not taken *)
(* from the parsers above.                                                 *)

ParseableDates == {<<"2","0","2","4","-","0","1","-","0","1">>}

NonNumericCells == {<<"a","b","c">>, <<>>}

IsNegativeText(c) == c # <<>> /\ c[1] = "-"

\* YYYY-MM-DD
IsIsoDate(s) ==
    /\ Len(s) = 10
    /\ s[5] = "-" /\ s[8] = "-"
    /\ \A i \in {1, 2, 3, 4, 6, 7, 9, 10} : IsDigit(s[i])

\* The raw upload has a date column, an engagements column.
RawHasDate == Len(csv_data.columns) > 0 /\ HasColumn(cleaned_df.columns, <<"d","a","t","e">>)

RawHasEngagements ==
    /\ HasColumn(cleaned_df.columns, <<"e","n","g","a","g","e","m","e","n","t","s">>)
    /\ ColumnIndex(cleaned_df.columns, <<"e","n","g","a","g","e","m","e","n","t","s">>) <= Len(csv_data.columns)

\* The rows of the raw upload whose date is one of the parseable ones (all
\* of them when the upload has no date column).
KeptRawRows ==
    IF RawHasDate
    THEN SelectSeq(csv_data.rows,
                   LAMBDA r : r[ColumnIndex(cleaned_df.columns, <<"d","a","t","e">>)] \in ParseableDates)
    ELSE csv_data.rows

CleanedEngagements == Column(cleaned_df, <<"e","n","g","a","g","e","m","e","n","t","s">>)

\* The key column of each chart's table, and whether its metric is a count
\* of rows or a sum of engagements.
KeyColumn(chart) ==
    CASE chart = "sentiment"  -> <<"s","e","n","t","i","m","e","n","t">>
      [] chart = "engagement" -> <<"d","a","t","e">>
      [] chart = "platform"   -> <<"p","l","a","t","f","o","r","m">>
      [] chart = "media_type" -> <<"m","e","d","i","a","T","y","p","e">>
      [] chart = "location"   -> <<"l","o","c","a","t","i","o","n">>

CountsRows(chart) == chart \in {"sentiment", "media_type"}

\* The metric of key `key` of a chart, from the kept raw rows alone: their
\* number, or the sum of their cleaned engagements.
MetricOfKept(chart, key) ==
    LET k == ColumnIndex(cleaned_df.columns, KeyColumn(chart))
        kept == KeptRawRows
    IN  SumSeq([i \in DOMAIN kept |->
                   IF kept[i][k] # key THEN 0
                   ELSE IF CountsRows(chart) THEN 1
                   ELSE CleanedEngagements[i]])

-----------------------------------------------------------------------------
(* Properties. *)

\* C1: every call of generate_insights_from_gemini returns between 1 and 3
\* entries, each a non-empty string, whatever the key, the status and the
\* body, a success whose text is empty or blank included.
InsightsBetweenOneAndThree ==
    run.requested =>
        /\ Len(run.result) \in 1..3
        /\ \A i \in DOMAIN run.result : run.result[i] # <<>>

\* C2: without an API key the requester returns exactly one string, which
\* mentions the missing key, and makes no HTTP request.
MissingKeyMakesNoRequest ==
    (run.requested /\ api_key = <<>>) =>
        /\ ~run.posted
        /\ Len(run.result) = 1
        /\ Contains(run.result[1], <<"A","P","I"," ","K","e","y"," ","i","s"," ","m","i","s","s","i","n","g">>)

MissingKeyRequested == run.requested /\ api_key = <<>> /\ run.clicked = "location"

EveryCleanedRowHasDate ==
    ~cleaned_df.isNone =>
        /\ HasColumn(cleaned_df.columns, <<"d","a","t","e">>)
        /\ \A i \in DOMAIN cleaned_df.rows :
              IsIsoDate(cleaned_df.rows[i][ColumnIndex(cleaned_df.columns, <<"d","a","t","e">>)])

\* C4 as amended: after cleaning an upload that has a date column, every
\* row of the cleaned table has a date in YYYY-MM-DD form; the cleaned rows
\* are the raw rows whose date parses, in order, so a raw row whose date
\* does not parse is absent; and every entry of the five aggregate tables
\* has a key of a kept row and the count, or the engagements sum, of the
\* kept rows of that key alone.  After cleaning an upload that has no date
\* column the cleaned table has none either and keeps every raw row, and
\* no table of engagement by date is made.
CleanedRowsHaveDates ==
    /\ (~cleaned_df.isNone /\ ~RawHasDate) =>
          /\ Len(cleaned_df.rows) = Len(csv_data.rows)
          /\ "engagement" \notin run.rendered
    /\ (~cleaned_df.isNone /\ RawHasDate) =>
          /\ \A i \in DOMAIN cleaned_df.rows :
                IsIsoDate(cleaned_df.rows[i][ColumnIndex(cleaned_df.columns, <<"d","a","t","e">>)])
          /\ Len(cleaned_df.rows) = Len(KeptRawRows)
          /\ \A i \in DOMAIN cleaned_df.rows : \A j \in DOMAIN csv_data.columns :
                cleaned_df.columns[j] # <<"e","n","g","a","g","e","m","e","n","t","s">> =>
                    cleaned_df.rows[i][j] = KeptRawRows[i][j]
          /\ \A c \in run.rendered : \A n \in DOMAIN run.charts[c] :
                LET e == run.charts[c][n]
                IN  /\ \E i \in DOMAIN KeptRawRows :
                          KeptRawRows[i][ColumnIndex(cleaned_df.columns, KeyColumn(c))] = e.key
                    /\ e.value = MetricOfKept(c, e.key)

\* A raw upload of two rows, one of them dropped for its date, with all
\* five charts drawn from the other.
RowDroppedAndChartsDrawn ==
    /\ ~cleaned_df.isNone /\ RawHasDate
    /\ Len(csv_data.rows) = 2 /\ Len(cleaned_df.rows) = 1
    /\ run.rendered = ChartSet

\* C5: normalizing the column names a second time changes nothing.
NormalizationIdempotent ==
    ~csv_data.isNone =>
        NormalizeColumns(NormalizeColumns(csv_data.columns))
            = NormalizeColumns(csv_data.columns)

\* The candidate text of the response of the last request, when the
\* response is a success of the expected structure.
HasCandidateText ==
    /\ run.posted /\ run.response.kind = "http" /\ ResponseOk(run.response)
    /\ run.response.parses /\ run.response.isObject
    /\ HasExpectedStructure(run.response)
    /\ run.response.candidates[1].parts[1].hasText
    /\ run.response.candidates[1].parts[1].isString

CandidateLines == Split(run.response.candidates[1].parts[1].text, "\n")

BeginsWithMarker(line) == line # <<>> /\ <<line[1]>> \in BulletMarkers

\* C6: a success whose text is three lines, each beginning with a bullet
\* marker, returns those three lines in order with the markers stripped.
ThreeBulletsReturnedStripped ==
    (/\ HasCandidateText
     /\ Len(CandidateLines) = 3
     /\ \A i \in 1..3 : BeginsWithMarker(CandidateLines[i]))
    => run.result = [i \in 1..3 |-> Strip(Tail(CandidateLines[i]))]

\* The top locations of the last run, and what the property reads of the
\* cleaned table: its locations, their totals, and the position of each in
\* the per-location summed table.
TopLocations == run.charts["location"]

LocationSet ==
    {cleaned_df.rows[i][ColumnIndex(cleaned_df.columns, <<"l","o","c","a","t","i","o","n">>)] :
        i \in DOMAIN cleaned_df.rows} \ {<<>>}

LocationTotal(loc) ==
    LET col == Column(cleaned_df, <<"l","o","c","a","t","i","o","n">>)
    IN  SumSeq([i \in DOMAIN col |-> IF col[i] = loc THEN CleanedEngagements[i] ELSE 0])

\* The position of a location in a per-location summed table.
SummedPosition(summed, loc) == CHOOSE i \in DOMAIN summed : summed[i].key = loc

\* a is ahead of b in nlargest order: larger total, or equal and earlier in
\* the summed table.
Outranks(summed, a, b) ==
    \/ LocationTotal(a) > LocationTotal(b)
    \/ /\ LocationTotal(a) = LocationTotal(b)
       /\ SummedPosition(summed, a) < SummedPosition(summed, b)

\* C7: the top locations are at most 5; with at least 5 distinct locations
\* they are exactly 5; each entry is a location with its summed
\* engagements; the entries are in nlargest order and every location left
\* out is outranked by every entry, equal totals being ranked by position
\* in the per-location summed table.
TopLocationsAreTheLargest ==
    "location" \in run.rendered =>
        \E summed \in {location_engagement_data(cleaned_df)} :
            /\ Len(TopLocations) <= 5
            /\ Cardinality(LocationSet) >= 5 => Len(TopLocations) = 5
            /\ Cardinality(LocationSet) < 5 => Len(TopLocations) = Cardinality(LocationSet)
            /\ \A i \in DOMAIN TopLocations :
                  /\ TopLocations[i].key \in LocationSet
                  /\ TopLocations[i].value = LocationTotal(TopLocations[i].key)
            /\ \A i, j \in DOMAIN TopLocations :
                  i < j => Outranks(summed, TopLocations[i].key, TopLocations[j].key)
            /\ \A loc \in LocationSet :
                  \/ \E i \in DOMAIN TopLocations : TopLocations[i].key = loc
                  \/ \A i \in DOMAIN TopLocations :
                        Outranks(summed, TopLocations[i].key, loc)

\* More than 5 locations, and one left out whose total equals that of the
\* last entry.
TieAtTheCut ==
    /\ "location" \in run.rendered
    /\ Cardinality(LocationSet) > 5
    /\ Len(TopLocations) = 5
    /\ \E loc \in LocationSet :
          /\ \A i \in DOMAIN TopLocations : TopLocations[i].key # loc
          /\ LocationTotal(loc) = TopLocations[5].value
    /\ TopLocations[1].value > TopLocations[5].value

\* Text that names a malformed or unexpected response and no network
\* failure.
NamesMalformedResponse(s) ==
    /\ \/ Contains(s, <<"p","a","r","s","e">>)
       \/ Contains(s, <<"n","e","x","p","e","c","t","e","d">>)
    /\ ~Contains(s, <<"N","e","t","w","o","r","k">>)

\* C8: every failure of an insight request returns text that names its
\* class: 401 an authorization failure; another error status one string
\* with the status code; a network failure one string naming the network;
\* a success whose body does not parse or lacks the expected structure one
\* string naming a malformed or unexpected response, not a network failure.
FailuresNameTheirClass ==
    run.posted =>
        /\ run.response.kind = "connection_error" =>
              Len(run.result) = 1 /\ Contains(run.result[1], <<"N","e","t","w","o","r","k">>)
        /\ (run.response.kind = "http" /\ run.response.status = 401) =>
              \E i \in DOMAIN run.result : Contains(run.result[i], <<"A","u","t","h","o","r","i","z","a","t","i","o","n">>)
        /\ (run.response.kind = "http" /\ ~ResponseOk(run.response)
            /\ run.response.status # 401) =>
              /\ Len(run.result) = 1
              /\ Contains(run.result[1], NatToStr(run.response.status))
        /\ (run.response.kind = "http" /\ ResponseOk(run.response)
            /\ ~HasCandidateText) =>
              Len(run.result) = 1 /\ NamesMalformedResponse(run.result[1])

\* C9: an insight request overwrites the slot of its own chart with the
\* returned list and leaves the cleaned table, the raw upload and the other
\* four slots as they were.
InsightRequestFrame ==
    [][run'.action = "click" =>
          /\ cleaned_df' = cleaned_df
          /\ csv_data' = csv_data
          /\ insights'[run'.clicked] = run'.result
          /\ \A c \in ChartSet \ {run'.clicked} : insights'[c] = insights[c]]_vars

\* A failed request for the last chart, with the first chart's slot filled
\* and the tables in place.
FailedRequestBesideFilledSlot ==
    /\ run.action = "click" /\ run.clicked = "location"
    /\ run.response.kind = "connection_error"
    /\ insights["sentiment"] # <<>>
    /\ insights["sentiment"] # insights["location"]
    /\ ~cleaned_df.isNone /\ ~csv_data.isNone

\* C10: a run whose cleaning fails completes with both tables cleared, no
\* chart drawn and no request made; while there is no cleaned table no
\* chart is drawn and no request is made; and a cleaned table comes back
\* only by an upload that is cleaned successfully.
FailedUploadClearsTables ==
    /\ [](/\ run.cleaning = "failed" => cleaned_df.isNone /\ csv_data.isNone
          /\ cleaned_df.isNone => run.rendered = {} /\ ~run.requested)
    /\ [][(cleaned_df.isNone /\ ~cleaned_df'.isNone) =>
             run'.action = "upload" /\ run'.cleaning = "ok"]_vars

\* An upload failed in a session that had a cleaned table and insights.
FailedAfterInsights ==
    /\ run.cleaning = "failed"
    /\ insights["location"] # <<>>
    /\ ~uploaded_file.isNone

====
